---- MODULE Spec2Model ----
(***************************************************************************)
(* A model of ollama_cli.py: the entry point cli(), its interactive loop   *)
(* and the chat exchange ask_ollama().                                     *)
(*                                                                         *)
(* Text is modelled as a sequence of one-character strings, so that        *)
(* lower(), strip(), replace() and += are computed as Python computes      *)
(* them.  The console is modelled as the sequence of things printed on it. *)
(***************************************************************************)
EXTENDS Integers, Sequences, FiniteSets, TLC

VARIABLES
    args,         \* the parsed command line: prompt, model, no_stream, version
    pc,           \* where the process is: start, prompt, status, streaming,
                  \* exited, crashed
    caller,       \* which call site of ask_ollama is active: none, oneshot, loop
    messages,     \* cli's list of messages (the Conversation)
    stream,       \* cli's stream flag
    multiline,    \* cli's multiline flag
    text,         \* the line last returned by session.prompt
    nlines,       \* how many lines session.prompt has returned
    requests,     \* the calls made to ollama.chat, in order
    response,     \* what ollama.chat returned: the fragments of the streamed
                  \* response being iterated, or the one full response
    idx,          \* how many fragments of response the for loop has consumed
    content,      \* ask_ollama's accumulator / result
    interrupted,  \* ask_ollama's interrupted flag
    out,          \* what has been printed on the console, in order
    raised,       \* the exception raised in the last step, "none" if none
    exit_code     \* the process's exit status, -1 while it runs

vars == <<args, pc, caller, messages, stream, multiline, text, nlines,
          requests, response, idx, content, interrupted, out, raised,
          exit_code>>

-----------------------------------------------------------------------------
(* Bounds and input alphabets *)

\* how many lines one session reads at most
MaxLines == 3

None == <<"<None>">>

empty == <<>>
hi == <<"h", "i">>
Hel == <<"H", "e", "l">>
lo == <<"l", "o">>
Hello == <<"H", "e", "l", "l", "o">>
blank_line == <<" ", "\t">>
multiline_cmd == <<"m", "u", "l", "t", "i", "l", "i", "n", "e">>
show_markdown_cmd ==
    <<"s", "h", "o", "w", "-", "m", "a", "r", "k", "d", "o", "w", "n">>
\* " Show Markdown ": upper case, surrounding spaces, one internal space
show_markdown_spaced ==
    <<" ", "S", "h", "o", "w", " ", "M", "a", "r", "k", "d", "o", "w", "n", " ">>
\* "show  markdown": two internal spaces
show_markdown_double ==
    <<"s", "h", "o", "w", " ", " ", "m", "a", "r", "k", "d", "o", "w", "n">>
\* "\tmultiline": a leading tab, which strip(" ") keeps
multiline_tab == <<"\t", "m", "u", "l", "t", "i", "l", "i", "n", "e">>

\* the lines the user may enter
Lines == {blank_line, multiline_cmd, show_markdown_spaced,
         show_markdown_double, multiline_tab, hi}

\* the values of the positional argument
Prompts == {None, hi}

\* the values of --model
Models == {"llama2", "mistral"}

\* the streamed responses the chat client may produce
StreamResponses == {<<>>, <<Hel, lo>>}

\* the full responses the chat client may produce
FullResponses == {Hello, empty}

-----------------------------------------------------------------------------
(* Text functions *)

Whitespace == {" ", "\t", "\n"}

UpperToLower ==
    ("H" :> "h") @@ ("M" :> "m") @@ ("S" :> "s") @@ ("L" :> "l")

\* str.lower()
Lower(s) ==
    [i \in 1..Len(s) |->
        IF s[i] \in DOMAIN UpperToLower THEN UpperToLower[s[i]] ELSE s[i]]

RECURSIVE LStrip(_, _)
LStrip(s, chars) ==
    IF s # <<>> /\ Head(s) \in chars THEN LStrip(Tail(s), chars) ELSE s

RECURSIVE RStrip(_, _)
RStrip(s, chars) ==
    IF s # <<>> /\ s[Len(s)] \in chars
    THEN RStrip(SubSeq(s, 1, Len(s) - 1), chars)
    ELSE s

\* str.strip(chars); str.strip() is Strip(s, Whitespace)
Strip(s, chars) == RStrip(LStrip(s, chars), chars)

\* str.replace(old, new) for one-character old and new
Replace(s, old, new) ==
    [i \in 1..Len(s) |-> IF s[i] = old THEN new ELSE s[i]]

\* the same without lower(): text.strip(" ").replace(" ", "-")
IdentPromptNoLower(t) == Replace(Strip(t, {" "}), " ", "-")

\* text.lower().strip(" ").replace(" ", "-")
IdentPrompt(t) == Replace(Strip(Lower(t), {" "}), " ", "-")

\* not text.strip()
IsBlank(t) == Strip(t, Whitespace) = <<>>

-----------------------------------------------------------------------------
(* Messages and console output *)

\* the system prompt built at start-up
setup == <<"s", "e", "t", "u", "p">>

Msg(role, c) == [role |-> role, content |-> c]

Ev(kind, t) == [kind |-> kind, text |-> t]

Last(s) == s[Len(s)]

-----------------------------------------------------------------------------
(* The program *)

\* __version__
version == <<"0", ".", "2", ".", "0">>

\* the number of parameters ask_ollama declares: model, messages, stream, console
AskOllamaParams == 4

\* the number of arguments of the call in the one-shot branch
OneShotCallArgs == 3

\* the number of arguments of the call in the interactive loop
LoopCallArgs == 4

\* the exit status of a Python process that ends on an uncaught exception
UncaughtExit == 1

\* `if args.prompt:` : None and the empty string are false
Truthy(p) == p # None /\ p # <<>>

\* the user message holding the stripped line instead of the line
UserMessageStripped(t) == Msg("user", Strip(t, Whitespace))

UserMessage(t) == Msg("user", t)

AssistantMessage(c) == Msg("assistant", c)

\* content = chunk_text instead of +=
AccumulateOverwrites(c, chunk) == chunk

\* content += chunk_text
Accumulate(c, chunk) == c \o chunk

Init ==
    /\ args \in [prompt : Prompts, model : Models,
                 no_stream : BOOLEAN, version : BOOLEAN]
    /\ pc = "start"
    /\ caller = "none"
    /\ messages = <<>>
    /\ stream = FALSE
    /\ multiline = FALSE
    /\ text = <<>>
    /\ nlines = 0
    /\ requests = <<>>
    /\ response = <<>>
    /\ idx = 0
    /\ content = <<>>
    /\ interrupted = FALSE
    /\ out = <<>>
    /\ raised = "none"
    /\ exit_code = -1

\* An exception that nothing catches leaves cli(): the process ends with a
\* traceback.  exc is the exception, o the console output so far.
Crash(exc, o) ==
    /\ pc' = "crashed"
    /\ raised' = exc
    /\ exit_code' = UncaughtExit
    /\ out' = o
    /\ caller' = "none"

\* the same sending only the newest message
CallAskOllamaLastOnly(site, nargs, msgs, st, o) ==
    IF nargs # AskOllamaParams
    THEN /\ Crash("TypeError", o)
         /\ UNCHANGED requests
    ELSE /\ raised' = "none"
         /\ requests' = Append(requests,
                [model |-> args.model, messages |-> <<Last(msgs)>>,
                 stream |-> st])
         /\ out' = Append(o, Ev("status_on", <<>>))
         /\ pc' = "status"
         /\ caller' = site
         /\ UNCHANGED exit_code

\* A call ask_ollama(...) with nargs positional arguments from the call site
\* `site`, msgs being cli's messages and st its stream flag at the call, and
\* o the console output so far.  A call whose argument count differs from the parameter count raises
\* TypeError before the body runs; no handler of cli catches TypeError.
\* Otherwise the body runs to its first block point, ollama.chat inside the
\* Status.
CallAskOllama(site, nargs, msgs, st, o) ==
    IF nargs # AskOllamaParams
    THEN /\ Crash("TypeError", o)
         /\ UNCHANGED requests
    ELSE /\ raised' = "none"
         /\ requests' = Append(requests,
                [model |-> args.model, messages |-> msgs, stream |-> st])
         /\ out' = Append(o, Ev("status_on", <<>>))
         /\ pc' = "status"
         /\ caller' = site
         /\ UNCHANGED exit_code

\* ask_ollama returns c to its call site, o being the console output so far.
\* The loop appends the assistant message and prompts again; the one-shot
\* branch returns 0.
Return(c, o) ==
    /\ out' = o
    /\ caller' = "none"
    /\ IF caller = "loop"
       THEN /\ messages' = Append(messages, AssistantMessage(c))
            /\ pc' = "prompt"
            /\ UNCHANGED exit_code
       ELSE /\ pc' = "exited"
            /\ exit_code' = 0
            /\ UNCHANGED messages

\* the same with the --version test placed after the conversation is built
StartVersionLate ==
    /\ pc = "start"
    /\ stream' = ~args.no_stream
    /\ IF args.version
       THEN /\ messages' = <<Msg("system", setup)>>
            /\ pc' = "exited"
            /\ exit_code' = 0
            /\ out' = Append(out, Ev("banner", version))
            /\ raised' = "none"
            /\ UNCHANGED <<caller, requests>>
       ELSE IF Truthy(args.prompt)
            THEN /\ messages' = <<Msg("system", setup),
                                  Msg("user", args.prompt)>>
                 /\ CallAskOllama("oneshot", OneShotCallArgs, messages',
                                  stream',
                                  Append(out, Ev("banner", version)))
            ELSE /\ messages' = <<Msg("system", setup)>>
                 /\ pc' = "prompt"
                 /\ out' = Append(out, Ev("banner", version))
                 /\ raised' = "none"
                 /\ UNCHANGED <<caller, requests, exit_code>>
    /\ multiline' = FALSE
    /\ UNCHANGED <<args, text, nlines, response, idx, content, interrupted>>

\* cli() from the banner to its first block point
Start ==
    /\ pc = "start"
    /\ IF args.version
       THEN /\ pc' = "exited"
            /\ exit_code' = 0
            /\ out' = Append(out, Ev("banner", version))
            /\ raised' = "none"
            /\ UNCHANGED <<caller, messages, stream, requests>>
       ELSE /\ stream' = ~args.no_stream
            /\ IF Truthy(args.prompt)
               THEN /\ messages' = <<Msg("system", setup),
                                     UserMessage(args.prompt)>>
                    /\ CallAskOllama("oneshot", OneShotCallArgs, messages',
                                     stream',
                                     Append(out, Ev("banner", version)))
               ELSE /\ messages' = <<Msg("system", setup)>>
                    /\ pc' = "prompt"
                    /\ out' = Append(out, Ev("banner", version))
                    /\ raised' = "none"
                    /\ UNCHANGED <<caller, requests, exit_code>>
    /\ multiline' = FALSE
    /\ UNCHANGED <<args, text, nlines, response, idx, content, interrupted>>

\* session.prompt raises KeyboardInterrupt
PromptInterrupt ==
    /\ pc = "prompt"
    /\ raised' = "KeyboardInterrupt"
    /\ pc' = "exited"
    /\ exit_code' = 0
    /\ UNCHANGED <<args, caller, messages, stream, multiline, text, nlines,
                   requests, response, idx, content, interrupted, out>>

\* session.prompt raises EOFError
PromptEOF ==
    /\ pc = "prompt"
    /\ raised' = "EOFError"
    /\ pc' = "exited"
    /\ exit_code' = 0
    /\ UNCHANGED <<args, caller, messages, stream, multiline, text, nlines,
                   requests, response, idx, content, interrupted, out>>

\* session.prompt returns line
Reads(line) ==
    /\ pc = "prompt"
    /\ nlines < MaxLines
    /\ text' = line
    /\ nlines' = nlines + 1

IsShowMarkdown(t) == ~IsBlank(t) /\ IdentPrompt(t) = show_markdown_cmd

IsMultiline(t) ==
    ~IsBlank(t) /\ ~IsShowMarkdown(t) /\ IdentPrompt(t) = multiline_cmd

IsQuestion(t) == ~IsBlank(t) /\ ~IsShowMarkdown(t) /\ ~IsMultiline(t)

\* a blank line: continue
ReadBlank(line) ==
    /\ Reads(line)
    /\ IsBlank(line)
    /\ raised' = "none"
    /\ UNCHANGED <<args, pc, caller, messages, stream, multiline, requests,
                   response, idx, content, interrupted, out, exit_code>>

\* show-markdown: print the content of messages[-1]
ShowMarkdown(line) ==
    /\ Reads(line)
    /\ IsShowMarkdown(line)
    /\ raised' = "none"
    /\ out' = out \o <<Ev("show_header", <<>>),
                       Ev("show", Last(messages).content)>>
    /\ UNCHANGED <<args, pc, caller, messages, stream, multiline, requests,
                   response, idx, content, interrupted, exit_code>>

\* the same switching multiline mode on instead of flipping it
ToggleMultilineEnables(line) ==
    /\ Reads(line)
    /\ IsMultiline(line)
    /\ raised' = "none"
    /\ multiline' = TRUE
    /\ out' = Append(out, Ev("multiline_on", <<>>))
    /\ UNCHANGED <<args, pc, caller, messages, stream, requests,
                   response, idx, content, interrupted, exit_code>>

\* multiline: flip the flag and say so
ToggleMultiline(line) ==
    /\ Reads(line)
    /\ IsMultiline(line)
    /\ raised' = "none"
    /\ multiline' = ~multiline
    /\ out' = Append(out, Ev(IF multiline' THEN "multiline_on"
                                           ELSE "multiline_off", <<>>))
    /\ UNCHANGED <<args, pc, caller, messages, stream, requests,
                   response, idx, content, interrupted, exit_code>>

\* the same passing True for stream
AskAlwaysStreams(line) ==
    /\ Reads(line)
    /\ IsQuestion(line)
    /\ messages' = Append(messages, UserMessage(line))
    /\ CallAskOllama("loop", LoopCallArgs, messages', TRUE, out)
    /\ UNCHANGED <<args, stream, multiline, response, idx, content,
                   interrupted>>

\* any other line: append the user message and call ask_ollama
Ask(line) ==
    /\ Reads(line)
    /\ IsQuestion(line)
    /\ messages' = Append(messages, UserMessage(line))
    /\ CallAskOllama("loop", LoopCallArgs, messages', stream, out)
    /\ UNCHANGED <<args, stream, multiline, response, idx, content,
                   interrupted>>

\* ask_ollama's stream parameter: the value passed by the call in progress
AskStream == Last(requests).stream

\* the loop's handler continuing instead of returning 0
StatusInterruptContinues ==
    /\ pc = "status"
    /\ raised' = "KeyboardInterrupt"
    /\ pc' = IF caller = "loop" THEN "prompt" ELSE "exited"
    /\ exit_code' = IF caller = "loop" THEN exit_code ELSE 0
    /\ caller' = "none"
    /\ out' = Append(out, Ev("status_off", <<>>))
    /\ UNCHANGED <<args, messages, stream, multiline, text, nlines, requests,
                   response, idx, content, interrupted>>

\* KeyboardInterrupt while ollama.chat is pending: the Status is removed and
\* the exception leaves ask_ollama; both call sites then return 0.
StatusInterrupt ==
    /\ pc = "status"
    /\ raised' = "KeyboardInterrupt"
    /\ pc' = "exited"
    /\ exit_code' = 0
    /\ caller' = "none"
    /\ out' = Append(out, Ev("status_off", <<>>))
    /\ UNCHANGED <<args, messages, stream, multiline, text, nlines, requests,
                   response, idx, content, interrupted>>

\* ollama.chat raises an error: nothing catches it
StatusFail ==
    /\ pc = "status"
    /\ Crash("Error", Append(out, Ev("status_off", <<>>)))
    /\ UNCHANGED <<args, messages, stream, multiline, text, nlines, requests,
                   response, idx, content, interrupted>>

\* the same printing the header while the Status is still shown
ChatStreamsHeaderInStatus(r) ==
    /\ pc = "status"
    /\ AskStream
    /\ response' = r
    /\ idx' = 0
    /\ content' = <<>>
    /\ interrupted' = FALSE
    /\ raised' = "none"
    /\ out' = out \o <<Ev("header", <<>>), Ev("status_off", <<>>),
                       Ev("live_start", <<>>)>>
    /\ pc' = "streaming"
    /\ UNCHANGED <<args, caller, messages, stream, multiline, text, nlines,
                   requests, exit_code>>

\* ollama.chat(stream=True) returns the iterator of the fragments r
ChatStreams(r) ==
    /\ pc = "status"
    /\ AskStream
    /\ response' = r
    /\ idx' = 0
    /\ content' = <<>>
    /\ interrupted' = FALSE
    /\ raised' = "none"
    /\ out' = out \o <<Ev("status_off", <<>>), Ev("header", <<>>),
                       Ev("live_start", <<>>)>>
    /\ pc' = "streaming"
    /\ UNCHANGED <<args, caller, messages, stream, multiline, text, nlines,
                   requests, exit_code>>

\* the same rendering the text but returning none
ChatCompletesReturnsEmpty(r) ==
    /\ pc = "status"
    /\ ~AskStream
    /\ response' = <<r>>
    /\ content' = <<>>
    /\ raised' = "none"
    /\ Return(<<>>, out \o <<Ev("status_off", <<>>), Ev("header", <<>>),
                             Ev("render", r)>>)
    /\ UNCHANGED <<args, stream, multiline, text, nlines, requests, idx,
                   interrupted>>

\* ollama.chat(stream=False) returns the full response r
ChatCompletes(r) ==
    /\ pc = "status"
    /\ ~AskStream
    /\ response' = <<r>>
    /\ content' = r
    /\ raised' = "none"
    /\ Return(r, out \o <<Ev("status_off", <<>>), Ev("header", <<>>),
                          Ev("render", r)>>)
    /\ UNCHANGED <<args, stream, multiline, text, nlines, requests, idx,
                   interrupted>>

\* the for loop takes the next fragment
StreamChunk ==
    /\ pc = "streaming"
    /\ idx < Len(response)
    /\ content' = Accumulate(content, response[idx + 1])
    /\ out' = Append(out, Ev("render", content'))
    /\ idx' = idx + 1
    /\ raised' = "none"
    /\ UNCHANGED <<args, pc, caller, messages, stream, multiline, text, nlines,
                   requests, response, interrupted, exit_code>>

\* the iterator is exhausted: ask_ollama returns content
StreamEnd ==
    /\ pc = "streaming"
    /\ idx = Len(response)
    /\ raised' = "none"
    /\ Return(content, Append(out, Ev("live_stop", <<>>)))
    /\ UNCHANGED <<args, stream, multiline, text, nlines, requests, response,
                   idx, content, interrupted>>

\* the handler in ask_ollama returning no text instead of the accumulator
StreamInterruptDiscards ==
    /\ pc = "streaming"
    /\ interrupted' = TRUE
    /\ raised' = "KeyboardInterrupt"
    /\ Return(<<>>, out \o <<Ev("live_stop", <<>>),
                             Ev("interrupted", <<>>)>>)
    /\ UNCHANGED <<args, stream, multiline, text, nlines, requests, response,
                   idx, content>>

\* no handler in ask_ollama: the exception reaches the call site
StreamInterruptReraises ==
    /\ pc = "streaming"
    /\ raised' = "KeyboardInterrupt"
    /\ pc' = "exited"
    /\ exit_code' = 0
    /\ caller' = "none"
    /\ out' = Append(out, Ev("live_stop", <<>>))
    /\ UNCHANGED <<args, messages, stream, multiline, text, nlines, requests,
                   response, idx, content, interrupted>>

\* the loop prompting again after an interrupt without storing the text
StreamInterruptSkipsAppend ==
    /\ pc = "streaming"
    /\ interrupted' = TRUE
    /\ raised' = "KeyboardInterrupt"
    /\ out' = out \o <<Ev("live_stop", <<>>), Ev("interrupted", <<>>)>>
    /\ caller' = "none"
    /\ pc' = IF caller = "loop" THEN "prompt" ELSE "exited"
    /\ exit_code' = IF caller = "loop" THEN exit_code ELSE 0
    /\ UNCHANGED <<args, messages, stream, multiline, text, nlines, requests,
                   response, idx, content>>

\* KeyboardInterrupt inside the for loop: caught in ask_ollama, which prints
\* the notice and returns content
StreamInterrupt ==
    /\ pc = "streaming"
    /\ interrupted' = TRUE
    /\ raised' = "KeyboardInterrupt"
    /\ Return(content, out \o <<Ev("live_stop", <<>>),
                                Ev("interrupted", <<>>)>>)
    /\ UNCHANGED <<args, stream, multiline, text, nlines, requests, response,
                   idx, content>>

\* the handler in ask_ollama catching every exception, not only
\* KeyboardInterrupt
StreamFailSwallowed ==
    /\ pc = "streaming"
    /\ interrupted' = TRUE
    /\ raised' = "Error"
    /\ Return(content, out \o <<Ev("live_stop", <<>>),
                                Ev("interrupted", <<>>)>>)
    /\ UNCHANGED <<args, stream, multiline, text, nlines, requests, response,
                   idx, content>>

\* the iterator raises an error: nothing catches it
StreamFail ==
    /\ pc = "streaming"
    /\ Crash("Error", Append(out, Ev("live_stop", <<>>)))
    /\ UNCHANGED <<args, messages, stream, multiline, text, nlines, requests,
                   response, idx, content, interrupted>>

Next ==
    \/ Start
    \/ PromptInterrupt
    \/ PromptEOF
    \/ \E line \in Lines : ReadBlank(line)
    \/ \E line \in Lines : ShowMarkdown(line)
    \/ \E line \in Lines : ToggleMultiline(line)
    \/ \E line \in Lines : Ask(line)
    \/ StatusInterrupt
    \/ StatusFail
    \/ \E r \in StreamResponses : ChatStreams(r)
    \/ \E r \in FullResponses : ChatCompletes(r)
    \/ StreamChunk
    \/ StreamEnd
    \/ StreamInterrupt
    \/ StreamFail

Spec == Init /\ [][Next]_vars

-----------------------------------------------------------------------------
(* One exchange with every streamed response up to MaxChunks fragments *)

\* how many fragments a streamed response has at most
MaxChunks == 3

\* how many questions a session of SpecExchange asks at most
MaxTurns == 1

Fragments == {Hel, lo, empty}

AllStreamResponses ==
    UNION {[1..n -> Fragments] : n \in 0..MaxChunks}

NextExchange ==
    \/ Start
    \/ PromptEOF
    \/ nlines < MaxTurns /\ Ask(hi)
    \/ StatusInterrupt
    \/ StatusFail
    \/ \E r \in AllStreamResponses : ChatStreams(r)
    \/ \E r \in FullResponses : ChatCompletes(r)
    \/ StreamChunk
    \/ StreamEnd
    \/ StreamInterrupt
    \/ StreamFail

SpecExchange == Init /\ [][NextExchange]_vars

-----------------------------------------------------------------------------
(* Properties *)

\* the concatenation of the fragments fs
RECURSIVE Join(_)
Join(fs) == IF fs = <<>> THEN <<>> ELSE Head(fs) \o Join(Tail(fs))

IsPrefix(a, b) == Len(a) <= Len(b) /\ SubSeq(b, 1, Len(a)) = a

\* a reserved command as the specification words it: case ignored,
\* surrounding spaces removed, every internal space turned into a hyphen
Reserved(t) ==
    Replace(Strip(Lower(t), {" "}), " ", "-")
        \in {show_markdown_cmd, multiline_cmd}

\* this step is session.prompt returning a line
LineRead == nlines' = nlines + 1

\* this step is a KeyboardInterrupt at a block point of an exchange of the loop
ExchangeInterrupt ==
    /\ caller = "loop"
    /\ pc \in {"status", "streaming"}
    /\ raised' = "KeyboardInterrupt"

\* this step is a failure of the chat client
ClientFailure == pc \in {"status", "streaming"} /\ raised' = "Error"

\* the index in out of the last "live_start"
LiveStart ==
    CHOOSE k \in 1..Len(out) :
        /\ out[k].kind = "live_start"
        /\ \A j \in (k + 1)..Len(out) : out[j].kind # "live_start"

(* C1: with a prompt argument (and no --version) the process ends after     *)
(* exactly one chat request, made with the configured model on the          *)
(* conversation <<system, user prompt>>, and its exit code is 0.            *)
OneShotOneExchange ==
    (Truthy(args.prompt) /\ ~args.version /\ pc \in {"exited", "crashed"}) =>
        /\ Len(requests) = 1
        /\ requests[1].model = args.model
        /\ requests[1].messages =
               <<Msg("system", setup), Msg("user", args.prompt)>>
        /\ exit_code = 0

(* C2, as claimed: a KeyboardInterrupt while the fragments are iterated     *)
(* consumes no further fragment, prints the notice and leaves the           *)
(* Conversation as it was, its last message being the turn's user message.  *)
MidStreamInterruptAppendsNothing ==
    [][(pc = "streaming" /\ raised' = "KeyboardInterrupt") =>
          /\ idx' = idx
          /\ Last(out').kind = "interrupted"
          /\ messages' = messages
          /\ Last(messages').role = "user"]_vars

(* C2, amended: a KeyboardInterrupt while the fragments are iterated        *)
(* consumes no further fragment, prints the notice, and the loop appends    *)
(* one assistant message holding the concatenation of the fragments         *)
(* consumed before the interrupt.                                           *)
MidStreamInterruptAppendsPartial ==
    [][(pc = "streaming" /\ caller = "loop" /\ raised' = "KeyboardInterrupt") =>
          /\ idx' = idx
          /\ Last(out').kind = "interrupted"
          /\ messages' = Append(messages,
                 Msg("assistant", Join(SubSeq(response, 1, idx))))
          /\ messages[Len(messages)].role = "user"]_vars

MidStreamInterruptWitness ==
    /\ pc = "prompt"
    /\ raised = "KeyboardInterrupt"
    /\ interrupted
    /\ response = <<Hel, lo>>
    /\ idx = 1
    /\ Last(out).kind = "interrupted"
    /\ Last(messages) = Msg("assistant", Hel)

(* C3: a line that is neither blank nor a reserved command appends exactly  *)
(* one user message holding the line; an exchange that returns without an   *)
(* interrupt appends exactly one assistant message holding the returned     *)
(* text; no assistant message follows another assistant message.            *)
QuestionGrowsConversation ==
    /\ [][(LineRead /\ ~IsBlank(text') /\ ~Reserved(text')) =>
             messages' = Append(messages, Msg("user", text'))]_vars
    /\ [][(caller = "loop" /\ pc' = "prompt" /\ raised' = "none") =>
             /\ messages' = Append(messages, Msg("assistant", content'))
             /\ stream => content' = Join(response)
             /\ ~stream => Last(out') = Ev("render", content')]_vars
    /\ [](\A i \in 2..Len(messages) :
             messages[i].role = "assistant" => messages[i - 1].role = "user")

QuestionWitness ==
    /\ pc = "prompt"
    /\ raised = "none"
    /\ Len(messages) = 3
    /\ messages[2] = Msg("user", multiline_tab)
    /\ messages[3] = Msg("assistant", Hello)

(* C4: a line that is a reserved command leaves the Conversation unchanged  *)
(* and makes no chat request.                                               *)
ReservedLeavesConversation ==
    [][(LineRead /\ Reserved(text')) =>
          /\ messages' = messages
          /\ requests' = requests
          /\ pc' = "prompt"]_vars

ReservedWitness ==
    /\ pc = "prompt"
    /\ text = show_markdown_spaced
    /\ Last(out).kind = "show"
    /\ Len(messages) = 3
    /\ Len(requests) = 1

(* C5: once built, the Conversation starts with the only system message,    *)
(* then alternates user, assistant, user, ...; every step leaves the stored *)
(* messages in place and appends at most one (the start-up builds the       *)
(* initial one or two).                                                     *)
ConversationStructure ==
    /\ [](pc # "start" /\ ~args.version =>
             /\ Len(messages) >= 1
             /\ messages[1].role = "system"
             /\ \A i \in 2..Len(messages) :
                    messages[i].role =
                        IF i % 2 = 0 THEN "user" ELSE "assistant")
    /\ [][/\ IsPrefix(messages, messages')
          /\ pc # "start" => Len(messages') <= Len(messages) + 1]_vars

ConversationWitness ==
    /\ pc = "prompt"
    /\ Len(messages) = 5
    /\ messages[5].role = "assistant"

(* C6, as claimed: a KeyboardInterrupt at a block point of an exchange of   *)
(* the loop returns the loop to awaiting input; the process goes on.        *)
ExchangeInterruptReturnsToPrompt ==
    [][ExchangeInterrupt => (pc' = "prompt" /\ exit_code' = -1)]_vars

(* C6, amended: a KeyboardInterrupt while the fragments are iterated        *)
(* returns the loop to awaiting input and the process goes on; a            *)
(* KeyboardInterrupt while the chat client's response is awaited ends the   *)
(* process with exit code 0; neither ends it on an uncaught exception.      *)
ExchangeInterruptUnwinds ==
    [][ExchangeInterrupt =>
          IF pc = "streaming"
          THEN pc' = "prompt" /\ exit_code' = -1
          ELSE pc' = "exited" /\ exit_code' = 0]_vars

ExchangeInterruptWitness ==
    /\ pc = "prompt"
    /\ raised = "KeyboardInterrupt"
    /\ nlines < MaxLines
    /\ exit_code = -1
    /\ Last(messages).role = "assistant"

(* C7: when the chat client fails during an exchange the exchange ends and  *)
(* the Conversation is the one sent with the request (the Conversation      *)
(* before the turn plus the turn's user message): nothing is appended.      *)
ClientFailureKeepsConversation ==
    /\ [][(LineRead /\ pc' = "status") =>
             /\ messages' = Append(messages, Msg("user", text'))
             /\ Last(requests').messages = messages']_vars
    /\ [][ClientFailure =>
             /\ messages' = messages
             /\ messages' = Last(requests).messages
             /\ Last(messages').role = "user"
             /\ pc' \notin {"status", "streaming"}]_vars

ClientFailureWitness ==
    /\ pc = "crashed"
    /\ raised = "Error"
    /\ Len(messages) = 4
    /\ idx = 1
    /\ Last(messages) = Msg("user", hi)

(* C8: a process that ended without a failure of the chat client ended      *)
(* with exit code 0.                                                        *)
ExitCodeZero ==
    (pc \in {"exited", "crashed"} /\ raised # "Error") => exit_code = 0

(* C9: while a streamed response is iterated, the renders since the Live    *)
(* display started are, in order, the concatenations of the first 1, 2, ... *)
(* fragments, each a prefix of the next; when the iteration ends the last   *)
(* render and the returned text are the concatenation of all fragments.     *)
StreamRendersPrefixes ==
    /\ pc = "streaming" =>
        /\ Len(out) - LiveStart = idx
        /\ \A i \in 1..idx :
               out[LiveStart + i] =
                   Ev("render", Join(SubSeq(response, 1, i)))
        /\ \A i \in 1..(idx - 1) :
               IsPrefix(out[LiveStart + i].text, out[LiveStart + i + 1].text)
    /\ (pc = "prompt" /\ Last(out).kind = "live_stop") =>
        /\ Last(messages) = Msg("assistant", Join(response))
        /\ content = Join(response)
        /\ response # <<>> =>
               out[Len(out) - 1] = Ev("render", Join(response))

StreamRendersWitness ==
    /\ pc = "prompt"
    /\ Last(out).kind = "live_stop"
    /\ response = <<Hel, lo>>
    /\ out[Len(out) - 2] = Ev("render", Hel)
    /\ out[Len(out) - 1] = Ev("render", Hello)
    /\ Last(messages) = Msg("assistant", Hello)

(* C10: what show-markdown displays is the content of the last stored       *)
(* message, and that message is an assistant message.                       *)
ShowMarkdownShowsResponse ==
    (out # <<>> /\ Last(out).kind = "show") =>
        /\ Last(out).text = Last(messages).content
        /\ Last(messages).role = "assistant"

(* C11: with --version, whatever the other arguments, the process prints    *)
(* the banner holding the version and ends with exit code 0; it makes no    *)
(* chat request, builds no Conversation and reads no line.                  *)
VersionOnly ==
    args.version =>
        /\ requests = <<>>
        /\ messages = <<>>
        /\ nlines = 0
        /\ pc \in {"start", "exited"}
        /\ pc = "exited" =>
               /\ exit_code = 0
               /\ out = <<Ev("banner", version)>>

VersionWitness ==
    /\ args.version
    /\ Truthy(args.prompt)
    /\ args.no_stream
    /\ args.model = "mistral"
    /\ pc = "exited"

\* how many of the events es are renders
RECURSIVE Renders(_)
Renders(es) ==
    IF es = <<>> THEN 0
    ELSE (IF Head(es).kind = "render" THEN 1 ELSE 0) + Renders(Tail(es))

(* C12: a non-streaming exchange that gets the full response t prints one   *)
(* render, of exactly t, and returns t (the loop stores t as the assistant  *)
(* message).                                                                *)
FullResponseRenderedOnce ==
    [][(pc = "status" /\ ~stream /\ raised' = "none") =>
          /\ Len(response') = 1
          /\ IsPrefix(out, out')
          /\ Renders(out') = Renders(out) + 1
          /\ Last(out') = Ev("render", response'[1])
          /\ content' = response'[1]
          /\ caller = "loop" =>
                 messages' = Append(messages, Msg("assistant", response'[1]))
      ]_vars

FullResponseWitness ==
    /\ pc = "prompt"
    /\ ~stream
    /\ response = <<Hello>>
    /\ Renders(out) = 2
    /\ Last(out) = Ev("render", Hello)
    /\ Last(messages) = Msg("assistant", Hello)

\* the "multiline" command as the specification words it
MultilineCommand(t) ==
    Replace(Strip(Lower(t), {" "}), " ", "-") = multiline_cmd

\* how many of the events es confirm a switch of multiline mode
RECURSIVE Toggles(_)
Toggles(es) ==
    IF es = <<>> THEN 0
    ELSE (IF Head(es).kind \in {"multiline_on", "multiline_off"}
          THEN 1 ELSE 0) + Toggles(Tail(es))

(* C13: the multiline flag is false when the loop starts; a step flips it   *)
(* if it reads a "multiline" command and leaves it unchanged otherwise; so  *)
(* the flag is true exactly after an odd number of "multiline" commands.    *)
MultilineToggles ==
    /\ []((pc = "prompt" /\ nlines = 0) => ~multiline)
    /\ [][multiline' = IF LineRead /\ MultilineCommand(text')
                       THEN ~multiline ELSE multiline]_vars
    /\ [](multiline <=> Toggles(out) % 2 = 1)

MultilineWitness ==
    /\ pc = "prompt"
    /\ nlines = 3
    /\ ~multiline
    /\ Toggles(out) = 2
    /\ Last(out).kind = "multiline_off"
    /\ Len(messages) = 3

(* C14: once set at start-up the stream flag is the negation of             *)
(* --no-stream in every state; every chat request carries that value; with  *)
(* --no-stream no exchange iterates fragments and every response header is  *)
(* followed by the one full render, without it every header is followed by  *)
(* the Live display of a streamed response.                                 *)
StreamFlagFixed ==
    /\ (pc # "start" /\ ~args.version) => stream = ~args.no_stream
    /\ \A i \in 1..Len(requests) : requests[i].stream = ~args.no_stream
    /\ pc = "streaming" => ~args.no_stream
    /\ \A i \in 1..Len(out) :
           out[i].kind = "header" =>
               /\ i < Len(out)
               /\ out[i + 1].kind =
                      IF args.no_stream THEN "render" ELSE "live_start"

StreamFlagWitness ==
    /\ args.no_stream
    /\ pc = "prompt"
    /\ Len(requests) = 2
    /\ multiline
    /\ Renders(out) = 2

(* C15: whenever the loop awaits a line the Conversation has odd length     *)
(* 2k+1, the system message followed by k pairs of a user and an assistant  *)
(* message; so its last message is never a user message.                    *)
PromptTimeComplete ==
    pc = "prompt" =>
        /\ Len(messages) % 2 = 1
        /\ messages[1].role = "system"
        /\ \A k \in 1..((Len(messages) - 1) \div 2) :
               /\ messages[2 * k].role = "user"
               /\ messages[2 * k + 1].role = "assistant"
        /\ Last(messages).role \in {"system", "assistant"}

PromptTimeWitness ==
    /\ pc = "prompt"
    /\ nlines = 3
    /\ Len(messages) = 5
    /\ interrupted
    /\ messages[3] = Msg("assistant", Hel)

\* how many of the messages ms are user messages
RECURSIVE Users(_)
Users(ms) ==
    IF ms = <<>> THEN 0
    ELSE (IF Head(ms).role = "user" THEN 1 ELSE 0) + Users(Tail(ms))

(* C16: in an interactive session there are as many chat requests as user   *)
(* messages in the Conversation, and the i-th request carries the           *)
(* Conversation up to and including the i-th user message: the system       *)
(* message, the i-1 earlier pairs, and that user message last.              *)
OneRequestPerUserMessage ==
    (~args.version /\ ~Truthy(args.prompt)) =>
        /\ Len(requests) = Users(messages)
        /\ \A i \in 1..Len(requests) :
               /\ requests[i].messages = SubSeq(messages, 1, 2 * i)
               /\ requests[i].messages[1].role = "system"
               /\ Last(requests[i].messages).role = "user"
               /\ Users(requests[i].messages) = i

OneRequestWitness ==
    /\ pc = "status"
    /\ nlines = 3
    /\ Len(requests) = 2
    /\ Len(requests[2].messages) = 4
    /\ Toggles(out) = 1

\* the kind of the i-th thing printed, "" before the first
Kind(i) == IF i \in 1..Len(out) THEN out[i].kind ELSE ""

(* C17: the console output of every exchange is ordered: the status is      *)
(* shown first and stays the last thing shown exactly while ollama.chat is  *)
(* pending; it is removed directly before the header; the header comes once,*)
(* before every render of the exchange; the interrupt notice comes after    *)
(* the Live display has stopped, and no render follows it.  An interrupt    *)
(* while the status is shown only removes the status.                       *)
ExchangeOutputOrder ==
    /\ [](/\ pc = "status" <=> (out # <<>> /\ Last(out).kind = "status_on")
          /\ \A i \in 1..Len(out) :
                /\ Kind(i) = "status_on" /\ i < Len(out) =>
                       Kind(i + 1) = "status_off"
                /\ Kind(i) = "status_off" => Kind(i - 1) = "status_on"
                /\ Kind(i) = "header" => Kind(i - 1) = "status_off"
                /\ Kind(i) = "live_start" => Kind(i - 1) = "header"
                /\ Kind(i) = "render" =>
                       Kind(i - 1) \in {"header", "live_start", "render"}
                /\ Kind(i) = "live_stop" =>
                       Kind(i - 1) \in {"live_start", "render"}
                /\ Kind(i) = "interrupted" =>
                       /\ Kind(i - 1) = "live_stop"
                       /\ Kind(i + 1) \notin {"render", "header", "live_start",
                                              "live_stop", "status_off"})
    /\ [][(pc = "status" /\ raised' = "KeyboardInterrupt") =>
             out' = Append(out, Ev("status_off", <<>>))]_vars

ExchangeOutputWitness ==
    /\ pc = "prompt"
    /\ Len(out) >= 7
    /\ Kind(Len(out) - 6) = "status_on"
    /\ Kind(Len(out) - 5) = "status_off"
    /\ Kind(Len(out) - 4) = "header"
    /\ Kind(Len(out) - 3) = "live_start"
    /\ Kind(Len(out) - 2) = "render"
    /\ Kind(Len(out) - 1) = "live_stop"
    /\ Kind(Len(out)) = "interrupted"

====
